---- MODULE Spec2Model ----
(***************************************************************************)
(* A model of blanket-rs: the resource Generator of src/lib.rs, the        *)
(* Builder of src/builder/mod.rs, the Manager of src/node.rs and the       *)
(* FsCache of src/cache.rs.                                                *)
(*                                                                         *)
(* The dependency graph is topologic::AcyclicDependencyGraph, an external  *)
(* crate whose source is not part of the repository.  Its two operations   *)
(* used here (depend_on and get_forward_dependency_topological_layers) are *)
(* modelled from their contract: an edge that would close a cycle is       *)
(* rejected and leaves the graph unchanged, and the layers put every       *)
(* dependency of a node in an earlier layer than the node.                 *)
(***************************************************************************)
EXTENDS Integers, Sequences, FiniteSets, TLC

\* ---------------------------------------------------------------- bounds
\* Number of resources the caller may add through require() or
\* create_resource_from_object_reference().
MaxRequire == 2
\* Number of calls of Generator::generate() on one Generator.
MaxCalls == 2
\* Number of calls of Builder::require / require_ref on one Builder.
MaxBRequire == 3
\* Number of calls of Manager::add_reference, and of Manager::generate, on
\* one Manager.
MaxAdd == 3
\* Number of calls of FsCache::set on one cache directory.
MaxSet == 2
\* Number of runs of the cache-aware build.
MaxRuns == 2

\* ------------------------------------------------------------- constants
\* src/lib.rs:19
MAX_RECURSION == 1024

NoPath == ""
NoId == -1

\* ------------------------------------------------------------- objects
\* An object is a value implementing the Generate trait.  It is described
\* by what its three trait methods do.
NoObj == [kind |-> "none"]

\* The test Mock of src/lib.rs, extended with the `equals` flag of the
\* builder's Mock and with a generate() that may fail.
Mock(path, eq, unique, shared, genErr) ==
    [kind |-> "mock", path |-> path, eq |-> eq, unique |-> unique,
     shared |-> shared, genErr |-> genErr]

\* An object whose behaviour is fixed by its kind alone:
\*   "string"        impl Generate for String: one Virtual terminal
\*   "failing"       the delayed registration returns Err
\*   "nested"        the delayed registration yields one Delayed, which
\*                   yields a Concrete terminal for path "b"
\*   "nestedFailing" the delayed registration yields one Delayed that fails
\*   "loop"          every delayed registration yields a further Delayed
\*   "chain"         every delayed registration yields a DependUnique on a
\*                   fresh object of the same kind
Special(kind) ==
    [kind |-> kind, path |-> NoPath, eq |-> FALSE, unique |-> NoObj,
     shared |-> NoId, genErr |-> FALSE]

Leaf == Mock(NoPath, FALSE, NoObj, NoId, FALSE)

\* The Root of src/root.rs: it registers nothing and its generate() succeeds.
Root == Mock(NoPath, FALSE, NoObj, NoId, FALSE)

\* Objects a DependUnique of a required Mock may carry; `self` is the id of
\* the requiring resource, so the third one closes a cycle.
UniqueObjects(self) ==
    { Leaf,
      Mock("a", TRUE, NoObj, NoId, FALSE),
      Mock(NoPath, FALSE, NoObj, self, FALSE) }

\* The id of a resource that was created by another Generator, one that
\* has created more resources than this Generator ever does.  A ResourceRef
\* does not tell which Generator made it.
Foreign == 2 * MAX_RECURSION

\* Objects the caller may pass to require() when the next id is `self`.
MockObjects(self) ==
    { Mock(NoPath, FALSE, NoObj, NoId, FALSE),
      Mock("a", FALSE, NoObj, NoId, FALSE),
      Mock("a", TRUE, NoObj, NoId, FALSE),
      Mock("b", FALSE, NoObj, NoId, FALSE),
      Mock("a", TRUE, Leaf, NoId, FALSE),
      Mock("b", FALSE, NoObj, NoId, TRUE),
      Mock(NoPath, FALSE, Leaf, NoId, TRUE) }
        \cup (IF self = 0 THEN {Mock(NoPath, FALSE, NoObj, Foreign, FALSE)} ELSE {})
        \cup { Mock(NoPath, FALSE, u, NoId, FALSE) : u \in UniqueObjects(self) }
        \cup { Mock(p, p # NoPath, NoObj, s, FALSE) : p \in {NoPath, "a"}, s \in 0..self }

\* The objects of the reverse example:
\*   "dir"     Dir::register: a DependUnique on its Directory and a
\*             PrecedeUnique on its entry, a Fil
\*   "fil"     Fil::register: nothing
\*   "before"  a resource that emits PrecedeShared on the resource `shared`
Dir == Special("dir")
Fil == Special("fil")
Before(shared) == [Special("before") EXCEPT !.shared = shared]

\* Objects the caller of the reverse example may pass to require().
PrecedeObjects(self) ==
    {Dir, Leaf, Mock("a", TRUE, NoObj, NoId, FALSE)}
        \cup {Before(s) : s \in 0..(self - 1)}

\* An object whose registration tree has `left` levels: the delayed
\* registration of every level but the last two yields a further Delayed
\* (with a Virtual terminal next to it at the last of these levels), the
\* last but one a DependUnique on a Leaf and a Virtual terminal, and the
\* register() of the Leaf yields the last, empty list.
Countdown(left) ==
    [kind |-> "countdown", path |-> NoPath, eq |-> FALSE, unique |-> NoObj,
     shared |-> NoId, genErr |-> FALSE, left |-> left]

\* Objects whose registration trees are as deep as the recursion budget
\* allows, one level deeper, and without end.
DeepObjects ==
    {Countdown(MAX_RECURSION), Countdown(MAX_RECURSION + 1), Special("loop")}

BoundedSpecials == {Special(k) : k \in {"string", "failing", "nested", "nestedFailing"}}
UnboundedSpecials == {Special(k) : k \in {"loop", "chain"}}

\* An unbounded declaration chain is required alone: into a fresh Generator,
\* and nothing is added to the Generator after it.
Alone(regs) == \A i \in DOMAIN regs : regs[i].object \notin UnboundedSpecials

RequireObjects(self) ==
    MockObjects(self) \cup BoundedSpecials
        \cup (IF self = 0 THEN UnboundedSpecials ELSE {})

\* Generate::equals: the default returns false (src/lib.rs:34-36); a Mock
\* answers with its flag.
Equals(object, other) == object.kind = "mock" /\ object.eq

\* ------------------------------------------------------- registrations
Delayed(d) == [type |-> "Delayed", delayed |-> d]
DependUnique(resource, object) ==
    [type |-> "DependUnique", resource |-> resource, object |-> object]
DependShared(resource, shared) ==
    [type |-> "DependShared", resource |-> resource, shared |-> shared]

\* The registrations of the reverse example (examples/experimental/reverse),
\* which the NonterminalRegistration of src/registration.rs does not have.
PrecedeUnique(resource, object) ==
    [type |-> "PrecedeUnique", resource |-> resource, object |-> object]
PrecedeShared(resource, shared) ==
    [type |-> "PrecedeShared", resource |-> resource, shared |-> shared]
Concrete(resource, path) == [type |-> "Concrete", resource |-> resource, path |-> path]
Virtual(resource) == [type |-> "Virtual", resource |-> resource]

\* Generate::register: the delayed registration (a closure) of `object`
\* for the resource `resource`; `inner` tells the closures of one object
\* apart.
Register(object, resource) == [resource |-> resource, object |-> object, inner |-> FALSE]

\* Calling a delayed registration: [ok, regs].
Call(d) ==
    LET o == d.object
        r == d.resource
        opt(c, x) == IF c THEN <<x>> ELSE <<>>
    IN  CASE o.kind = "mock" ->
               [ok |-> TRUE,
                regs |-> opt(o.unique # NoObj, DependUnique(r, o.unique))
                         \o opt(o.shared # NoId, DependShared(r, o.shared))
                         \o opt(o.path # NoPath, Concrete(r, o.path))]
          [] o.kind = "string" -> [ok |-> TRUE, regs |-> <<Virtual(r)>>]
          [] o.kind = "failing" -> [ok |-> FALSE, regs |-> <<>>]
          [] o.kind \in {"nested", "nestedFailing"} ->
               IF ~d.inner
               THEN [ok |-> TRUE, regs |-> <<Delayed([d EXCEPT !.inner = TRUE])>>]
               ELSE IF o.kind = "nested"
                    THEN [ok |-> TRUE, regs |-> <<Concrete(r, "b")>>]
                    ELSE [ok |-> FALSE, regs |-> <<>>]
          [] o.kind = "loop" -> [ok |-> TRUE, regs |-> <<Delayed(d)>>]
          [] o.kind = "chain" -> [ok |-> TRUE, regs |-> <<DependUnique(r, o)>>]
          [] o.kind = "countdown" ->
               [ok |-> TRUE,
                regs |-> IF o.left > 3
                         THEN <<Delayed([d EXCEPT !.object = Countdown(o.left - 1)])>>
                         ELSE IF o.left = 3
                         THEN <<Delayed([d EXCEPT !.object = Countdown(o.left - 1)]),
                                Virtual(r)>>
                         ELSE IF o.left = 2
                         THEN <<DependUnique(r, Leaf), Virtual(r)>>
                         ELSE <<>>]
          [] o.kind = "dir" ->
               [ok |-> TRUE, regs |-> <<DependUnique(r, Leaf), PrecedeUnique(r, Fil)>>]
          [] o.kind = "fil" -> [ok |-> TRUE, regs |-> <<>>]
          [] o.kind = "before" -> [ok |-> TRUE, regs |-> <<PrecedeShared(r, o.shared)>>]

\* ------------------------------------------------- the dependency graph
\* A graph is a set of edges <<from, to>>: `from` depends on `to`.
GraphNodes(g) == {e[1] : e \in g} \cup {e[2] : e \in g}

Dependencies(g, n) == {e[2] : e \in {x \in g : x[1] = n}}

RECURSIVE ReachFrom(_, _)
ReachFrom(g, seen) ==
    LET more == UNION {Dependencies(g, n) : n \in seen} \ seen
    IN  IF more = {} THEN seen ELSE ReachFrom(g, seen \cup more)

\* from depends (transitively) on to
depends_on(g, from, to) == to \in ReachFrom(g, Dependencies(g, from))

\* AcyclicDependencyGraph::depend_on: [ok, graph]
depend_on(g, from, to) ==
    IF from = to \/ depends_on(g, to, from)
    THEN [ok |-> FALSE, graph |-> g]
    ELSE [ok |-> TRUE, graph |-> g \cup {<<from, to>>}]

RECURSIVE LayersFrom(_, _)
LayersFrom(g, placed) ==
    LET ready == {n \in GraphNodes(g) \ placed : Dependencies(g, n) \subseteq placed}
    IN  IF ready = {} THEN <<>> ELSE <<ready>> \o LayersFrom(g, placed \cup ready)

\* AcyclicDependencyGraph::get_forward_dependency_topological_layers
get_forward_dependency_topological_layers(g) == LayersFrom(g, {})

\* ------------------------------------------------------------ Generator
VARIABLES
    registrations,       \* Generator.registrations
    resources,           \* Generator.resources: id -> object
    next_dependency_id,  \* Generator.next_dependency_id
    concrete_resources,  \* Generator.concrete_resources: path -> id
    dependency_graph,    \* Generator.dependency_graph
    pc,                  \* position inside generate(), or "idle" / "done"
    stack,               \* frames of expand_registrations_recursive
    terminals,           \* generate(): the local `terminals`
    ti,                  \* generate(): position of the loop over terminals
    layers,              \* generate(): the local `layers`
    li,                  \* generate(): index of the current layer
    lrest,               \* generate(): nodes of the current layer still to visit
    crest,               \* generate(): paths of concrete_resources still to visit
    generated,           \* ids whose generate() this call of generate() invoked, in order
    result,              \* what the last call of generate() returned
    calls,               \* number of calls of generate() so far
    earlier,             \* the errors of the expansion and of the path registration
                         \* that earlier calls of generate() returned
    required,            \* ids created by require()
    uniques,             \* ids created for the object of a DependUnique
    declared             \* <<resource, dependency>> of every add_dependency that returned Ok

gvars == <<registrations, resources, next_dependency_id, concrete_resources,
           dependency_graph, pc, stack, terminals, ti, layers, li, lrest, crest,
           generated, result, calls, earlier, required, uniques, declared>>

\* Generator::new
GInit ==
    /\ registrations = <<>>
    /\ resources = <<>>
    /\ next_dependency_id = 0
    /\ concrete_resources = <<>>
    /\ dependency_graph = {}
    /\ pc = "idle"
    /\ stack = <<>>
    /\ terminals = <<>>
    /\ ti = 1
    /\ layers = <<>>
    /\ li = 1
    /\ lrest = {}
    /\ crest = {}
    /\ generated = <<>>
    /\ result = "none"
    /\ calls = 0
    /\ earlier = {}
    /\ required = {}
    /\ uniques = {}
    /\ declared = {}

Locals == <<stack, terminals, ti, layers, li, lrest, crest>>

\* The map m with key k set to v (HashMap::insert).
Insert(m, k, v) == [x \in DOMAIN m \cup {k} |-> IF x = k THEN v ELSE m[x]]

\* create_resource_from_object_reference that also pushes the delayed
\* registration of the object, as require() does.
CreateResource_registering(object) ==
    /\ pc \in {"idle", "done"}
    /\ next_dependency_id < MaxRequire
    /\ Alone(registrations)
    /\ resources' = Insert(resources, next_dependency_id, object)
    /\ next_dependency_id' = next_dependency_id + 1
    /\ registrations' = Append(registrations, Register(object, next_dependency_id))
    /\ pc' = "idle"
    /\ UNCHANGED <<concrete_resources, dependency_graph, Locals,
                   generated, result, calls, earlier, required, uniques, declared>>

\* Generator::create_resource_from_object_reference
CreateResource(object) ==
    /\ pc \in {"idle", "done"}
    /\ next_dependency_id < MaxRequire
    /\ Alone(registrations)
    /\ resources' = Insert(resources, next_dependency_id, object)
    /\ next_dependency_id' = next_dependency_id + 1
    /\ pc' = "idle"
    /\ UNCHANGED <<registrations, concrete_resources, dependency_graph, Locals,
                   generated, result, calls, earlier, required, uniques, declared>>

\* A resource that depends on the shared resource of id 0 and on nothing else.
Dependent == Mock(NoPath, FALSE, NoObj, 0, FALSE)

\* The caller adds MaxRequire resources, and may require one more if that
\* makes a second Dependent in a row.
CanRequire(object) ==
    \/ next_dependency_id < MaxRequire
    \/ /\ next_dependency_id = MaxRequire
       /\ calls = 0
       /\ object = Dependent
       /\ resources[MaxRequire - 1] = Dependent

\* Generator::require
Require(object) ==
    /\ pc \in {"idle", "done"}
    /\ CanRequire(object)
    /\ Alone(registrations)
    /\ resources' = Insert(resources, next_dependency_id, object)
    /\ next_dependency_id' = next_dependency_id + 1
    /\ registrations' = Append(registrations, Register(object, next_dependency_id))
    /\ required' = required \cup {next_dependency_id}
    /\ pc' = "idle"
    /\ UNCHANGED <<concrete_resources, dependency_graph, Locals, generated,
                   result, calls, earlier, uniques, declared>>

\* generate() with the concrete resources registered after the generation.
PhaseAfter_GenerateFirst(phase) ==
    CASE phase = "expand" -> "layers"
      [] phase = "layers" -> "concrete"
      [] phase = "concrete" -> "register"
      [] phase = "register" -> "done"

\* The order of the four parts of generate(): expansion of the
\* registrations, registration of the concrete resources, generation of
\* the layers, generation of the concrete resources.
PhaseAfter(phase) ==
    CASE phase = "expand" -> "register"
      [] phase = "register" -> "layers"
      [] phase = "layers" -> "concrete"
      [] phase = "concrete" -> "done"

\* generate() moves on to its part `phase`, or returns Ok(()).
Goto(phase) ==
    /\ pc' = phase
    /\ result' = IF phase = "done" THEN "Ok" ELSE result
    /\ ti' = IF phase = "register" THEN 1 ELSE ti
    /\ IF phase = "layers"
       THEN LET ls == get_forward_dependency_topological_layers(dependency_graph)
            IN  /\ layers' = ls
                /\ li' = 1
                /\ lrest' = IF ls = <<>> THEN {} ELSE ls[1]
       ELSE UNCHANGED <<layers, li, lrest>>
    /\ crest' = IF phase = "concrete" THEN DOMAIN concrete_resources ELSE crest

\* generate() returns Err(e).
Return(e) ==
    /\ pc' = "done"
    /\ result' = e
    /\ stack' = <<>>

\* The errors generate() returns out of the expansion of the registrations.
ExpansionErrors == {"ErrRecursion", "ErrCycle", "ErrDelayed"}

\* Generator::generate, entry
GenerateStart ==
    /\ pc \in {"idle", "done"}
    /\ calls < MaxCalls
    /\ calls' = calls + 1
    /\ earlier' = earlier \cup ({result} \cap (ExpansionErrors \cup {"ErrCollision"}))
    /\ pc' = "expand"
    /\ result' = "none"
    /\ generated' = <<>>
    /\ stack' = <<>>
    /\ terminals' = <<>>
    /\ ti' = 1
    /\ layers' = <<>>
    /\ li' = 1
    /\ lrest' = {}
    /\ crest' = {}
    /\ UNCHANGED <<registrations, resources, next_dependency_id,
                   concrete_resources, dependency_graph, required, uniques, declared>>

\* expand_registrations_recursive without its test of `recurse`.
Enter_unbounded(recurse, regs, after, below) ==
    /\ stack' = Append(below, [recurse |-> recurse - 1, regs |-> regs, after |-> after])
    /\ UNCHANGED <<pc, result>>

\* expand_registrations_recursive whose caller adds no edge on its return.
Enter_without_edge(recurse, regs, after, below) ==
    IF recurse = 0
    THEN Return("ErrRecursion")
    ELSE /\ stack' = Append(below, [recurse |-> recurse - 1, regs |-> regs, after |-> <<>>])
         /\ UNCHANGED <<pc, result>>

\* expand_registrations_recursive that tests the budget after it took one off.
Enter_early(recurse, regs, after, below) ==
    IF recurse - 1 = 0
    THEN Return("ErrRecursion")
    ELSE /\ stack' = Append(below, [recurse |-> recurse - 1, regs |-> regs, after |-> after])
         /\ UNCHANGED <<pc, result>>

\* A call expand_registrations_recursive(recurse, generator, regs) made
\* from the frames `below`; `after` is the DependUnique edge the caller
\* adds when the call returns, or <<>>.
Enter(recurse, regs, after, below) ==
    IF recurse = 0
    THEN Return("ErrRecursion")
    ELSE /\ stack' = Append(below, [recurse |-> recurse - 1, regs |-> regs, after |-> after])
         /\ UNCHANGED <<pc, result>>

\* generate(): `while let Some(delayed) = self.registrations.pop()`
ExpandPop ==
    /\ pc = "expand"
    /\ stack = <<>>
    /\ IF registrations = <<>>
       THEN /\ Goto(PhaseAfter("expand"))
            /\ UNCHANGED <<registrations, stack>>
       ELSE LET delayed == registrations[Len(registrations)]
                called == Call(delayed)
            IN  /\ registrations' = SubSeq(registrations, 1, Len(registrations) - 1)
                /\ IF called.ok
                   THEN Enter(MAX_RECURSION, called.regs, <<>>, <<>>)
                   ELSE Return("ErrDelayed")
                /\ UNCHANGED <<ti, layers, li, lrest, crest>>
    /\ UNCHANGED <<resources, next_dependency_id, concrete_resources,
                   dependency_graph, terminals, generated, calls, earlier, required,
                   uniques, declared>>

\* add_dependency with the two ids passed to depend_on in the wrong order.
add_dependency_swapped(g, resource, dependency) == depend_on(g, dependency, resource)

\* add_dependency that answers Ok(()) whatever depend_on returned.
add_dependency_unchecked(g, resource, dependency) ==
    [ok |-> TRUE, graph |-> depend_on(g, resource, dependency).graph]

\* add_dependency that answers Ok(()) and adds nothing to the graph.
add_dependency_dropped(g, resource, dependency) == [ok |-> TRUE, graph |-> g]

\* add_dependency that records the edge from the dependency to the resource.
add_dependency_backwards(g, resource, dependency) ==
    [ok |-> TRUE, graph |-> g \cup {<<dependency, resource>>}]

\* Generator::add_dependency: [ok, graph]
add_dependency(g, resource, dependency) == depend_on(g, resource, dependency)

\* The add_dependency(resource, dependency)? of expand_registrations_recursive,
\* which then goes on with the frames `then`.
AddDependency(resource, dependency, then) ==
    LET added == add_dependency(dependency_graph, resource, dependency)
    IN  /\ dependency_graph' = added.graph
        /\ IF added.ok
           THEN /\ declared' = declared \cup {<<resource, dependency>>}
                /\ stack' = then
                /\ UNCHANGED <<pc, result>>
           ELSE /\ Return("ErrCycle")
                /\ UNCHANGED declared

\* A Precede handled as the Depend of the same name.
PrecedeEdge_forward(resource, referenced) == <<resource, referenced>>

\* The edge of a PrecedeUnique or PrecedeShared that `resource` emitted on
\* `referenced`: the Depend edge reversed, referenced -> resource.
PrecedeEdge(resource, referenced) == <<referenced, resource>>

\* One iteration of the loop of expand_registrations_recursive in the top
\* frame, or its return when the loop is over.
ExpandStep ==
    /\ pc = "expand"
    /\ stack # <<>>
    /\ LET top == stack[Len(stack)]
           below == SubSeq(stack, 1, Len(stack) - 1)
           cont == Append(below, [top EXCEPT !.regs = Tail(top.regs)])
       IN  IF top.regs = <<>>
           THEN \* Ok(collected): back in the caller
                IF top.after = <<>>
                THEN /\ stack' = below
                     /\ UNCHANGED <<pc, result, resources, next_dependency_id,
                                    dependency_graph, terminals, uniques, declared>>
                ELSE /\ AddDependency(top.after[1], top.after[2], below)
                     /\ UNCHANGED <<resources, next_dependency_id, terminals, uniques>>
           ELSE LET reg == Head(top.regs)
                IN  CASE reg.type = "Delayed" ->
                           LET called == Call(reg.delayed)
                           IN  /\ IF called.ok
                                  THEN Enter(top.recurse, called.regs, <<>>, cont)
                                  ELSE Return("ErrDelayed")
                               /\ UNCHANGED <<resources, next_dependency_id,
                                              dependency_graph, terminals, uniques,
                                              declared>>
                      [] reg.type = "DependUnique" ->
                           LET unique == next_dependency_id
                               called == Call(Register(reg.object, unique))
                           IN  /\ resources' = Insert(resources, unique, reg.object)
                               /\ next_dependency_id' = next_dependency_id + 1
                               /\ uniques' = uniques \cup {unique}
                               /\ IF called.ok
                                  THEN Enter(top.recurse, called.regs,
                                             <<reg.resource, unique>>, cont)
                                  ELSE Return("ErrDelayed")
                               /\ UNCHANGED <<dependency_graph, terminals, declared>>
                      [] reg.type = "DependShared" ->
                           /\ AddDependency(reg.resource, reg.shared, cont)
                           /\ UNCHANGED <<resources, next_dependency_id, terminals, uniques>>
                      [] reg.type = "PrecedeUnique" ->
                           LET unique == next_dependency_id
                               called == Call(Register(reg.object, unique))
                           IN  /\ resources' = Insert(resources, unique, reg.object)
                               /\ next_dependency_id' = next_dependency_id + 1
                               /\ uniques' = uniques \cup {unique}
                               /\ IF called.ok
                                  THEN Enter(top.recurse, called.regs,
                                             PrecedeEdge(reg.resource, unique), cont)
                                  ELSE Return("ErrDelayed")
                               /\ UNCHANGED <<dependency_graph, terminals, declared>>
                      [] reg.type = "PrecedeShared" ->
                           LET edge == PrecedeEdge(reg.resource, reg.shared)
                           IN  /\ AddDependency(edge[1], edge[2], cont)
                               /\ UNCHANGED <<resources, next_dependency_id, terminals,
                                              uniques>>
                      [] reg.type \in {"Concrete", "Virtual"} ->
                           /\ terminals' = Append(terminals, reg)
                           /\ stack' = cont
                           /\ UNCHANGED <<pc, result, resources, next_dependency_id,
                                          dependency_graph, uniques, declared>>
    /\ UNCHANGED <<registrations, concrete_resources, ti, layers, li, lrest, crest,
                   generated, calls, earlier, required>>

\* add_concrete_resource without the comparison with the existing claimant.
add_concrete_resource_unchecked(table, resource, path) ==
    [ok |-> TRUE, table |-> Insert(table, path, resource)]

\* add_concrete_resource that answers Ok(()) and inserts nothing.
add_concrete_resource_dropped(table, resource, path) == [ok |-> TRUE, table |-> table]

\* Generator::add_concrete_resource: [ok, table]
add_concrete_resource(table, resource, path) ==
    IF path \in DOMAIN table
          /\ ~Equals(resources[resource], resources[table[path]])
    THEN [ok |-> FALSE, table |-> table]
    ELSE [ok |-> TRUE, table |-> Insert(table, path, resource)]

\* generate(): one iteration of `for registration in terminals`, or the
\* end of that loop.
RegisterStep ==
    /\ pc = "register"
    /\ IF ti > Len(terminals)
       THEN /\ Goto(PhaseAfter("register"))
            /\ UNCHANGED <<concrete_resources, stack>>
       ELSE LET reg == terminals[ti]
            IN  /\ IF reg.type = "Virtual"
                   THEN /\ ti' = ti + 1
                        /\ UNCHANGED <<concrete_resources, pc, result, stack>>
                   ELSE LET added == add_concrete_resource(concrete_resources,
                                                           reg.resource, reg.path)
                        IN  /\ concrete_resources' = added.table
                            /\ IF added.ok
                               THEN ti' = ti + 1 /\ UNCHANGED <<pc, result, stack>>
                               ELSE Return("ErrCollision") /\ UNCHANGED ti
                /\ UNCHANGED <<layers, li, lrest, crest>>
    /\ UNCHANGED <<registrations, resources, next_dependency_id, dependency_graph,
                   terminals, generated, calls, earlier, required, uniques, declared>>

\* generate(): one iteration of `for layer in &layers { for node in layer`,
\* or the end of these loops.  A HashSet is visited in any order.
LayerStep ==
    /\ pc = "layers"
    /\ IF li > Len(layers)
       THEN /\ Goto(PhaseAfter("layers"))
            /\ UNCHANGED <<generated, stack>>
       ELSE \E node \in lrest :
              /\ IF node \notin DOMAIN resources
                 THEN Return("Panic") /\ UNCHANGED <<li, lrest, generated>>
                 ELSE /\ generated' = Append(generated, node)
                      /\ IF resources[node].genErr
                         THEN Return("ErrGenerate") /\ UNCHANGED <<li, lrest>>
                         ELSE /\ IF lrest = {node}
                                 THEN /\ li' = li + 1
                                      /\ lrest' = IF li < Len(layers) THEN layers[li + 1] ELSE {}
                                 ELSE /\ li' = li
                                      /\ lrest' = lrest \ {node}
                              /\ UNCHANGED <<pc, result, stack>>
              /\ UNCHANGED <<ti, layers, crest>>
    /\ UNCHANGED <<registrations, resources, next_dependency_id, concrete_resources,
                   dependency_graph, terminals, calls, earlier, required, uniques, declared>>

\* The loop over the concrete resources without the `?` on generate().
ConcreteStep_continue ==
    /\ pc = "concrete"
    /\ IF crest = {}
       THEN /\ Goto(PhaseAfter("concrete"))
            /\ UNCHANGED <<generated, stack>>
       ELSE \E path \in crest :
              /\ generated' = Append(generated, concrete_resources[path])
              /\ crest' = crest \ {path}
              /\ UNCHANGED <<pc, result, stack>>
              /\ UNCHANGED <<ti, layers, li, lrest>>
    /\ UNCHANGED <<registrations, resources, next_dependency_id, concrete_resources,
                   dependency_graph, terminals, calls, earlier, required, uniques, declared>>

\* generate(): one iteration of `for (_path, resource) in
\* &self.concrete_resources`, or the end of that loop.  A HashMap is
\* visited in any order.
ConcreteStep ==
    /\ pc = "concrete"
    /\ IF crest = {}
       THEN /\ Goto(PhaseAfter("concrete"))
            /\ UNCHANGED <<generated, stack>>
       ELSE \E path \in crest :
              /\ generated' = Append(generated, concrete_resources[path])
              /\ IF resources[concrete_resources[path]].genErr
                 THEN Return("ErrGenerate") /\ UNCHANGED crest
                 ELSE crest' = crest \ {path} /\ UNCHANGED <<pc, result, stack>>
              /\ UNCHANGED <<ti, layers, li, lrest>>
    /\ UNCHANGED <<registrations, resources, next_dependency_id, concrete_resources,
                   dependency_graph, terminals, calls, earlier, required, uniques, declared>>

\* The program of the reverse example: it requires, then generates.
PNext ==
    \/ \E object \in PrecedeObjects(next_dependency_id) : Require(object)
    \/ GenerateStart
    \/ ExpandPop
    \/ ExpandStep
    \/ RegisterStep
    \/ LayerStep
    \/ ConcreteStep

\* A program that requires objects with deep registration trees.
RNext ==
    \/ \E object \in DeepObjects : Require(object)
    \/ GenerateStart
    \/ ExpandPop
    \/ ExpandStep
    \/ RegisterStep
    \/ LayerStep
    \/ ConcreteStep

GNext ==
    \/ \E object \in RequireObjects(next_dependency_id) : Require(object)
    \/ \E object \in {Leaf, Mock("a", TRUE, NoObj, NoId, FALSE)} : CreateResource(object)
    \/ GenerateStart
    \/ ExpandPop
    \/ ExpandStep
    \/ RegisterStep
    \/ LayerStep
    \/ ConcreteStep

\* -------------------------------------------------------------- Builder
\* The objects given to the Builder of src/builder/mod.rs are named by a
\* handle (the Rc); BObjects gives what each is made of.  `eq` is the
\* `equals` flag of the test Mock, `shared` the handle of its shared object.
NoHandle == 0

BMock(path, eq, shared) == [kind |-> "mock", path |-> path, eq |-> eq, shared |-> shared]

BDirectory(path) == [kind |-> "directory", path |-> path, eq |-> FALSE, shared |-> NoHandle]

BObjects ==
    <<BMock("a", TRUE, NoHandle),
      BMock("a", TRUE, NoHandle),
      BMock("a", FALSE, NoHandle),
      BMock(NoPath, FALSE, 5),
      BMock(NoPath, FALSE, NoHandle),
      BMock("a", TRUE, 5),
      BDirectory("d")>>

Handles == DOMAIN BObjects

VARIABLES
    builder,     \* the Builder: nodes, next_id, roots, output, dependency_graph
    object_id,   \* the `id` field of every object
    b_result,    \* what the last require / require_ref returned, and for which handle
    b_calls      \* number of calls of require / require_ref so far

bvars == <<builder, object_id, b_result, b_calls>>

BNode(id, resource, dependencies) ==
    [id |-> id, resource |-> resource, dependencies |-> dependencies]

NoNode == BNode(NoId, NoHandle, <<>>)

\* Builder::new
BInit ==
    /\ builder = [nodes |-> <<>>, next_id |-> 0, roots |-> <<>>, output |-> <<>>,
                  dependency_graph |-> {}]
    /\ object_id = [h \in Handles |-> NoId]
    /\ b_result = [ok |-> TRUE, node |-> NoNode, resource |-> NoHandle]
    /\ b_calls = 0

\* Generate::id that returns None whatever the object holds.
BId_none(ids, h) == NoId

\* Generate::id: the Mock and CopyFile return their field, the Directory
\* returns None (src/resource/directory.rs:51-53).
BId(ids, h) == IF BObjects[h].kind = "directory" THEN NoId ELSE ids[h]

\* Generate::equals of the object `h` applied to `other`: a downcast of
\* `other` to the type of `h`, then PartialEq.
BEquals(h, other) ==
    /\ BObjects[h].kind = BObjects[other].kind
    /\ IF BObjects[h].kind = "mock"
       THEN BObjects[h].eq
       ELSE BObjects[h].path = BObjects[other].path

\* Builder::next, `check for existing node`, with a lookup that finds nothing.
b_existing_none(b, h, path) == [ok |-> TRUE, some |-> FALSE, node |-> NoNode]

\* Builder::next, `check for existing node`, which takes the claimant of
\* the path for the node whatever equals() answers.
b_existing_merging(b, h, path) ==
    IF path # NoPath /\ path \in DOMAIN b.output
    THEN [ok |-> TRUE, some |-> TRUE, node |-> b.output[path]]
    ELSE [ok |-> TRUE, some |-> FALSE, node |-> NoNode]

\* Builder::next, `check for existing node`: [ok, some, node]
b_existing(b, h, path) ==
    IF path # NoPath /\ path \in DOMAIN b.output
    THEN IF ~BEquals(b.output[path].resource, h)
         THEN [ok |-> FALSE, some |-> FALSE, node |-> NoNode]
         ELSE [ok |-> TRUE, some |-> TRUE, node |-> b.output[path]]
    ELSE [ok |-> TRUE, some |-> FALSE, node |-> NoNode]

\* A state of the Builder and of the objects is [b, ids]; the operations
\* below return [ok, b, ids, node].
RECURSIVE b_next(_, _, _)
RECURSIVE b_require_node(_, _, _)
RECURSIVE b_require_dependencies(_, _, _, _)

\* Builder::require_ref (and Builder::require, which wraps its argument
\* in a new Rc first)
b_require_ref(b, ids, h) ==
    LET n == b_next(b, ids, h)
    IN  IF n.ok THEN b_require_node(n.b, n.ids, n.node) ELSE n

\* Generate::dependencies of the Mock: [ok, b, ids, nodes]
b_dependencies(b, ids, h) ==
    IF BObjects[h].shared # NoHandle
    THEN LET r == b_require_ref(b, ids, BObjects[h].shared)
         IN  [ok |-> r.ok, b |-> r.b, ids |-> r.ids,
              nodes |-> IF r.ok THEN <<r.node>> ELSE <<>>]
    ELSE [ok |-> TRUE, b |-> b, ids |-> ids, nodes |-> <<>>]

\* Builder::next
b_next(b, ids, h) ==
    IF BId(ids, h) # NoId
    THEN IF BId(ids, h) \in DOMAIN b.nodes
         THEN [ok |-> TRUE, b |-> b, ids |-> ids, node |-> b.nodes[BId(ids, h)]]
         ELSE [ok |-> FALSE, b |-> b, ids |-> ids, node |-> NoNode]
    ELSE LET id == b.next_id
             b1 == [b EXCEPT !.next_id = id + 1]
             ids1 == [ids EXCEPT ![h] = id]
             path == BObjects[h].path
             existing == b_existing(b1, h, path)
         IN  IF ~existing.ok
             THEN [ok |-> FALSE, b |-> b1, ids |-> ids1, node |-> NoNode]
             ELSE IF existing.some
             THEN [ok |-> TRUE, b |-> b1, ids |-> ids1, node |-> existing.node]
             ELSE LET deps == b_dependencies(b1, ids1, h)
                  IN  IF ~deps.ok
                      THEN [ok |-> FALSE, b |-> deps.b, ids |-> deps.ids, node |-> NoNode]
                      ELSE [ok |-> TRUE,
                            b |-> IF path = NoPath THEN deps.b
                                  ELSE [deps.b EXCEPT
                                          !.output = Insert(@, path, BNode(id, h, <<>>))],
                            ids |-> deps.ids,
                            node |-> BNode(id, h, deps.nodes)]

\* Builder::require_node, the loop over node.dependencies from position i
b_require_dependencies(b, ids, node, i) ==
    IF i > Len(node.dependencies)
    THEN [ok |-> TRUE, b |-> b, ids |-> ids, node |-> node]
    ELSE LET dependency == node.dependencies[i]
             added == depend_on(b.dependency_graph, node.id, dependency.id)
             r == b_require_node([b EXCEPT !.dependency_graph = added.graph],
                                 ids, dependency)
         IN  IF ~added.ok
             THEN \* unwrap() panics
                  [ok |-> FALSE, b |-> b, ids |-> ids, node |-> NoNode]
             ELSE IF ~r.ok
             THEN [ok |-> FALSE, b |-> r.b, ids |-> r.ids, node |-> NoNode]
             ELSE b_require_dependencies(r.b, r.ids, node, i + 1)

\* Builder::require_node
b_require_node(b, ids, node) ==
    b_require_dependencies(
        [b EXCEPT !.nodes = Insert(@, node.id, node), !.roots = Append(@, node)],
        ids, node, 1)

\* A call of Builder::require or Builder::require_ref with the object h.
BRequire(h) ==
    /\ b_calls < MaxBRequire
    /\ LET r == b_require_ref(builder, object_id, h)
       IN  /\ builder' = r.b
           /\ object_id' = r.ids
           /\ b_result' = [ok |-> r.ok, node |-> r.node, resource |-> h]
    /\ b_calls' = b_calls + 1

BNext == \E h \in Handles : BRequire(h)

\* -------------------------------------------------------------- Manager
\* The Manager of src/node.rs.  Its objects are described by whether their
\* generate() fails and by what their equals() answers: FALSE is the
\* default of the Generate trait, which the Mock of the tests keeps.  An
\* object whose equals() answers true is offered as the first reference.
MObjects(self) ==
    {[genErr |-> FALSE, eq |-> FALSE], [genErr |-> TRUE, eq |-> FALSE]}
    \cup (IF self = 0 THEN {[genErr |-> FALSE, eq |-> TRUE]} ELSE {})

\* Generate::equals of these objects
MEquals(object, other) == object.eq

\* node.rs: a Node, and impl PartialEq for Node
Node(id, object) == [id |-> id, object |-> object]

Node_eq(self, other) == MEquals(self.object, other.object)

\* lib.rs: a Resource, and impl PartialEq for Resource
Resource(id, object) == [id |-> id, object |-> object]

Resource_eq(self, other) == self.id = other.id

\* builder/node.rs: impl PartialEq for Node
BNode_eq(self, other) == self.id = other.id

\* builder/dependency.rs: a Dependency, and impl PartialEq for Dependency
Dependency(id, resource) == [id |-> id, resource |-> resource]

Dependency_eq(self, other) == self.id = other.id

VARIABLES
    manager,      \* the Manager: next_id, map (id -> object)
    m_result,     \* the last call on the Manager and what it returned
    m_generated   \* ids whose object's generate() the Manager invoked, in order

mvars == <<manager, m_result, m_generated>>

\* The errors Manager::generate returns
NotFound == "resource not found"
GenerateFailed == "generate"

NoCall == [op |-> "none", id |-> NoId, ok |-> TRUE, err |-> "none"]

\* Manager::new
MInit ==
    /\ manager = [next_id |-> 0, map |-> <<>>]
    /\ m_result = NoCall
    /\ m_generated = <<>>

\* Manager::add_reference without `self.next_id += 1`.
add_reference_no_increment(m, object) ==
    [m EXCEPT !.map = Insert(@, m.next_id, object)]

\* Manager::add_reference: the Manager after the call
add_reference(m, object) ==
    [next_id |-> m.next_id + 1, map |-> Insert(m.map, m.next_id, object)]

\* A call of Manager::add_reference; it returns the node of id next_id.
AddReference(object) ==
    /\ manager.next_id < MaxAdd
    /\ manager' = add_reference(manager, object)
    /\ m_result' = [op |-> "add_reference", id |-> manager.next_id, ok |-> TRUE,
                    err |-> "none"]
    /\ UNCHANGED m_generated

\* A Manager::generate that takes an id it does not know for a resource
\* with nothing to generate.
MGenerate_lenient(id) ==
    /\ Len(m_generated) < MaxAdd
    /\ IF id \in DOMAIN manager.map
       THEN /\ m_generated' = Append(m_generated, id)
            /\ m_result' = [op |-> "generate", id |-> id,
                            ok |-> ~manager.map[id].genErr,
                            err |-> IF manager.map[id].genErr
                                    THEN GenerateFailed ELSE "none"]
       ELSE /\ m_result' = [op |-> "generate", id |-> id, ok |-> TRUE, err |-> "none"]
            /\ UNCHANGED m_generated
    /\ UNCHANGED manager

\* A call of Manager::generate
MGenerate(id) ==
    /\ Len(m_generated) < MaxAdd
    /\ IF id \in DOMAIN manager.map
       THEN /\ m_generated' = Append(m_generated, id)
            /\ m_result' = [op |-> "generate", id |-> id,
                            ok |-> ~manager.map[id].genErr,
                            err |-> IF manager.map[id].genErr
                                    THEN GenerateFailed ELSE "none"]
       ELSE /\ m_result' = [op |-> "generate", id |-> id, ok |-> FALSE,
                            err |-> NotFound]
            /\ UNCHANGED m_generated
    /\ UNCHANGED manager

\* A call of Manager::get; ok tells Some from None.
MGet(id) ==
    /\ m_result' = [op |-> "get", id |-> id, ok |-> id \in DOMAIN manager.map,
                    err |-> "none"]
    /\ UNCHANGED <<manager, m_generated>>

MNext ==
    \/ \E object \in MObjects(manager.next_id) : AddReference(object)
    \/ \E id \in 0..MaxAdd : MGenerate(id)
    \/ \E id \in 0..MaxAdd : MGet(id)

\* -------------------------------------------------------------- FsCache
\* The FsCache of src/cache.rs and the file system it writes to.
\*
\* A file name is the sequence of its parts between the dots ("a.txt" is
\* <<"a", "txt">>), a path is a sequence of names, absolute or relative.
RelPath(comps) == [abs |-> FALSE, comps |-> comps]
AbsPath(comps) == [abs |-> TRUE, comps |-> comps]

\* src/cache.rs:41
HASH_EXT == "blake3"

\* Path::extension: None is <<>>
NoExt == <<>>

extension(path) ==
    LET name == path.comps[Len(path.comps)]
    IN  IF path.comps # <<>> /\ Len(name) >= 2 THEN <<name[Len(name)]>> ELSE NoExt

\* PathBuf::set_extension / Path::with_extension: the extension `ext`
\* (a sequence of parts, <<>> for "") replaces the one the name has.
set_extension(path, ext) ==
    IF path.comps = <<>>
    THEN path
    ELSE LET name == path.comps[Len(path.comps)]
             stem == IF Len(name) >= 2 THEN SubSeq(name, 1, Len(name) - 1) ELSE name
         IN  [path EXCEPT !.comps[Len(path.comps)] = stem \o ext]

\* Path::join: an absolute `other` replaces the path.
join(path, other) ==
    IF other.abs THEN other ELSE [path EXCEPT !.comps = @ \o other.comps]

\* Path::parent (of a path that has one)
parent(path) == [path EXCEPT !.comps = SubSeq(@, 1, Len(@) - 1)]

\* `path` is `base` or lies below it
starts_with(path, base) ==
    /\ path.abs = base.abs
    /\ Len(path.comps) >= Len(base.comps)
    /\ SubSeq(path.comps, 1, Len(base.comps)) = base.comps

\* Path::strip_prefix(base).unwrap(), for a path that starts with base
strip_prefix(path, base) ==
    RelPath(SubSeq(path.comps, Len(base.comps) + 1, Len(path.comps)))

\* append_ext_hash
append_ext_hash(path) ==
    LET new_ext == IF extension(path) # NoExt
                   THEN extension(path) \o <<HASH_EXT>>
                   ELSE <<HASH_EXT>>
    IN  set_extension(path, new_ext)

\* FsCache.path
CachePath == RelPath(<< <<"cache">> >>)

\* FsCache::target_location
target_location(key) == append_ext_hash(join(join(CachePath, key), RelPath(<< <<"target">> >>)))

\* FsCache::dep_dir
dep_dir(key) == join(join(CachePath, key), RelPath(<< <<"inputs">> >>))

\* FsCache::dep_location
dep_location(key, dep) == append_ext_hash(join(dep_dir(key), dep))

\* FsCache::get_dep_from_location
get_dep_from_location(key, location) == strip_prefix(location, dep_dir(key))

\* A hash is a sequence of HashLen hexadecimal digits (blake3 has 64), its
\* text the sequence of their characters.
HashLen == 2

HexChars == <<"0", "1", "2", "3", "4", "5", "6", "7", "8", "9",
              "a", "b", "c", "d", "e", "f">>

\* Hash::to_string
to_string(hash) == [i \in 1..Len(hash) |-> HexChars[hash[i] + 1]]

NoHash == <<>>

\* str::parse::<Hash>: NoHash for Err
parse(text) ==
    IF Len(text) = HashLen
          /\ \A i \in 1..Len(text) : \E d \in 0..15 : HexChars[d + 1] = text[i]
    THEN [i \in 1..Len(text) |->
            CHOOSE d \in 0..15 : HexChars[d + 1] = text[i]]
    ELSE NoHash

\* The file system: the text of every file, and the directories.
NoText == <<"?">>

\* The directories above `path`.
Ancestors(path) ==
    {[path EXCEPT !.comps = SubSeq(@, 1, n)] : n \in 0..(Len(path.comps) - 1)}

\* std::fs::create_dir_all: [ok, fs]
create_dir_all(f, path) ==
    IF \E q \in Ancestors(path) \cup {path} : q \in DOMAIN f.files
    THEN [ok |-> FALSE, fs |-> f]
    ELSE [ok |-> TRUE, fs |-> [f EXCEPT !.dirs = @ \cup Ancestors(path) \cup {path}]]

\* std::fs::write: [ok, fs]
write(f, path, text) ==
    IF path \in f.dirs \/ parent(path) \notin f.dirs
    THEN [ok |-> FALSE, fs |-> f]
    ELSE [ok |-> TRUE, fs |-> [f EXCEPT !.files = Insert(@, path, text)]]

\* std::fs::read_to_string(..).ok(): NoText for None
read_to_string(f, path) == IF path \in DOMAIN f.files THEN f.files[path] ELSE NoText

\* walkdir::WalkDir::new(dir), the entries that are files
WalkDir(f, dir) == {path \in DOMAIN f.files : starts_with(path, dir)}

\* FsCache::set, the loop over deps: `order` is the order of the HashMap.
RECURSIVE set_deps(_, _, _, _)
set_deps(f, key, deps, order) ==
    IF order = <<>>
    THEN [ok |-> TRUE, fs |-> f]
    ELSE LET path == dep_location(key, Head(order))
             made == create_dir_all(f, parent(path))
             written == write(made.fs, path, to_string(deps[Head(order)]))
         IN  IF ~made.ok THEN made
             ELSE IF ~written.ok THEN written
             ELSE set_deps(written.fs, key, deps, Tail(order))

\* FsCache::set: [ok, fs]; ok is FALSE where an expect() panics.
FsCache_set(f, key, hash, deps, order) ==
    LET path == target_location(key)
        made == create_dir_all(f, parent(path))
        written == write(made.fs, path, to_string(hash))
        inputs == create_dir_all(written.fs, dep_dir(key))
    IN  IF ~made.ok THEN made
        ELSE IF ~written.ok THEN written
        ELSE IF ~inputs.ok THEN inputs
        ELSE set_deps(inputs.fs, key, deps, order)

None == [some |-> FALSE, hash |-> NoHash, deps |-> <<>>]

\* FsCache::get: None, or Some((hash, deps))
FsCache_get(f, key) ==
    LET text == read_to_string(f, target_location(key))
        hash == parse(text)
        dependencies == {path \in WalkDir(f, dep_dir(key)) : extension(path) = <<HASH_EXT>>}
        dep(location) == set_extension(get_dep_from_location(key, location), <<>>)
    IN  IF text = NoText \/ hash = NoHash THEN None
        ELSE IF \E location \in dependencies : parse(read_to_string(f, location)) = NoHash
        THEN None
        ELSE [some |-> TRUE, hash |-> hash,
              deps |-> [d \in {dep(location) : location \in dependencies} |->
                          parse(read_to_string(f,
                              CHOOSE location \in dependencies : dep(location) = d))]]

\* The keys, hashes and dependency paths the caller passes.
Keys == {RelPath(<< <<"k">> >>), RelPath(<< <<"k">>, <<"inputs">>, <<"x">> >>)}

Hashes == {<<0, 10>>, <<15, 1>>}

DepPaths == {RelPath(<< <<"a", "txt">> >>), AbsPath(<< <<"src">>, <<"a">> >>)}

DepMaps == UNION {[D -> Hashes] : D \in SUBSET DepPaths}

\* The orders in which a HashMap of the keys S may be visited.
Orders(S) ==
    {o \in [1..Cardinality(S) -> S] : \A i, j \in DOMAIN o : o[i] = o[j] => i = j}

VARIABLES
    fs,       \* the file system: files (path -> text), dirs
    c_sets,   \* the calls of FsCache::set so far: key, hash, deps, ok
    c_got     \* the last call of FsCache::get: key, and what it returned

cvars == <<fs, c_sets, c_got>>

\* FsCache::new: nothing is stored yet.
CInit ==
    /\ fs = [files |-> <<>>, dirs |-> {}]
    /\ c_sets = <<>>
    /\ c_got = [key |-> RelPath(<<>>), result |-> None]

\* A call of FsCache::set
CacheSet(key, hash, deps) ==
    /\ Len(c_sets) < MaxSet
    /\ \E order \in Orders(DOMAIN deps) :
         LET r == FsCache_set(fs, key, hash, deps, order)
         IN  /\ fs' = r.fs
             /\ c_sets' = Append(c_sets, [key |-> key, hash |-> hash, deps |-> deps,
                                          ok |-> r.ok])
    /\ UNCHANGED c_got

\* A call of FsCache::get
CacheGet(key) ==
    /\ c_got' = [key |-> key, result |-> FsCache_get(fs, key)]
    /\ UNCHANGED <<fs, c_sets>>

CNext ==
    \/ \E key \in Keys, hash \in Hashes, deps \in DepMaps : CacheSet(key, hash, deps)
    \/ \E key \in Keys : CacheGet(key)

\* A text that is no hash: what a record holds after a writer was
\* interrupted or another program wrote the file.
Garbage == <<"z">>

\* The storage fails: one record of the cache directory loses its content.
Corrupt(path) ==
    /\ path \in DOMAIN fs.files
    /\ \A q \in DOMAIN fs.files : fs.files[q] # Garbage
    /\ fs' = [fs EXCEPT !.files[path] = Garbage]
    /\ UNCHANGED <<c_sets, c_got>>

\* The cache on a storage that may fail.
FNext ==
    \/ CNext
    \/ \E path \in DOMAIN fs.files : Corrupt(path)

\* -------------------------------------------------------------- NoCache
\* The NoCache of src/cache.rs: it has no state.

\* A get that reports what the last set of the key recorded.
NoCache_get_recorded(sets, key) ==
    IF \E i \in DOMAIN sets : sets[i].key = key
    THEN LET i == CHOOSE j \in DOMAIN sets :
                      /\ sets[j].key = key
                      /\ \A k \in DOMAIN sets : sets[k].key = key => k <= j
         IN  [some |-> TRUE, hash |-> sets[i].hash, deps |-> sets[i].deps]
    ELSE None

\* NoCache::get, after the calls `sets` of NoCache::set
NoCache_get(sets, key) == None

\* NoCache::hash
NoCache_hash(filepath) == 0

\* ------------------------------------------------- the cache-aware build
\* The loop of the caller that consults a Cache around the generation of a
\* target.  It is not part of the sources; it follows the rebuild decision
\* policy of the specification.
\*
\* `exists`: the output of the target is on disk; `record`: what get()
\* returned; `current`: the hash of every dependency of the target as
\* hash() computes it now.
NeedsRebuild(exists, record, current) ==
    \/ ~exists
    \/ ~record.some
    \/ DOMAIN record.deps # DOMAIN current
    \/ \E d \in DOMAIN current : record.deps[d] # current[d]

VARIABLES
    d_cache,    \* the Cache the build uses: "FsCache", "NoCache", or "none" yet
    d_targets,  \* the targets whose output is on disk
    d_runs      \* the runs of the build so far: key, current, existed, rebuild

dvars == <<d_cache, d_targets, d_runs>>

DInit ==
    /\ d_cache = "none"
    /\ d_targets = {}
    /\ d_runs = <<>>

\* One run of the build for the target `key`, with the Cache `cache`:
\* decide and, where a rebuild is needed, generate the target and record
\* its hash and the hashes of its dependencies.
Run(cache, key, hash, current) ==
    /\ Len(d_runs) < MaxRuns
    /\ d_cache \in {"none", cache}
    /\ d_cache' = cache
    /\ LET record == IF cache = "NoCache" THEN NoCache_get(c_sets, key)
                     ELSE FsCache_get(fs, key)
           rebuild == NeedsRebuild(key \in d_targets, record, current)
       IN  /\ d_runs' = Append(d_runs, [key |-> key, current |-> current,
                                        existed |-> key \in d_targets,
                                        rebuild |-> rebuild])
           /\ IF rebuild
              THEN /\ d_targets' = d_targets \cup {key}
                   /\ \E order \in Orders(DOMAIN current) :
                        LET r == IF cache = "NoCache"
                                 THEN [ok |-> TRUE, fs |-> fs]
                                 ELSE FsCache_set(fs, key, hash, current, order)
                        IN  /\ fs' = r.fs
                            /\ c_sets' = Append(c_sets, [key |-> key, hash |-> hash,
                                                         deps |-> current, ok |-> r.ok])
              ELSE UNCHANGED <<d_targets, fs, c_sets>>
    /\ UNCHANGED c_got

\* The output of a target is removed from the disk.
RemoveTarget(key) ==
    /\ key \in d_targets
    /\ d_targets' = d_targets \ {key}
    /\ UNCHANGED <<d_cache, d_runs, cvars>>

\* With NoCache every hash is the one NoCache::hash returns.
NoCacheMaps == UNION {[D -> {NoCache_hash(d) : d \in DepPaths}] : D \in SUBSET DepPaths}

DNext ==
    \/ \E key \in Keys, hash \in Hashes, current \in DepMaps :
         Run("FsCache", key, hash, current)
    \/ \E key \in Keys, current \in NoCacheMaps :
         Run("NoCache", key, NoCache_hash(key), current)
    \/ \E key \in Keys : RemoveTarget(key)

\* ------------------------------------------------------- specifications
vars == <<gvars, bvars, mvars, cvars, dvars>>

Init == GInit /\ BInit /\ MInit /\ CInit /\ DInit

\* A program that uses the Generator.
Next == GNext /\ UNCHANGED <<bvars, mvars, cvars, dvars>>

Spec == Init /\ [][Next]_vars

\* generate() runs to its end once called.
FairSpec ==
    Spec /\ WF_vars((ExpandPop \/ ExpandStep) /\ UNCHANGED <<bvars, mvars, cvars, dvars>>)

\* A program that uses the Builder.
SpecB == Init /\ [][BNext /\ UNCHANGED <<gvars, mvars, cvars, dvars>>]_vars

\* A program that uses the Manager.
SpecM == Init /\ [][MNext /\ UNCHANGED <<gvars, bvars, cvars, dvars>>]_vars

\* A program that uses the FsCache.
SpecC == Init /\ [][CNext /\ UNCHANGED <<gvars, bvars, mvars, dvars>>]_vars

\* The Generator given deep registration trees.
SpecR == Init /\ [][RNext /\ UNCHANGED <<bvars, mvars, cvars, dvars>>]_vars

\* The Generator with the Precede registrations of the reverse example.
SpecP == Init /\ [][PNext /\ UNCHANGED <<bvars, mvars, cvars, dvars>>]_vars

\* A program that uses the FsCache on a storage that may fail.
SpecF == Init /\ [][FNext /\ UNCHANGED <<gvars, bvars, mvars, dvars>>]_vars

\* A build that consults a Cache.
SpecD == Init /\ [][DNext /\ UNCHANGED <<gvars, bvars, mvars>>]_vars

\* A program that uses one of the Generator, the Builder and the Manager,
\* whichever.
GUnused == next_dependency_id = 0 /\ calls = 0
BUnused == b_calls = 0
MUnused == manager.next_id = 0 /\ m_result = NoCall

NextAny ==
    \/ BUnused /\ MUnused /\ GNext /\ UNCHANGED <<bvars, mvars, cvars, dvars>>
    \/ GUnused /\ MUnused /\ BNext /\ UNCHANGED <<gvars, mvars, cvars, dvars>>
    \/ GUnused /\ BUnused /\ MNext /\ UNCHANGED <<gvars, bvars, cvars, dvars>>

SpecAny == Init /\ [][NextAny]_vars

\* ------------------------------------------------------------- claims
Range(f) == {f[x] : x \in DOMAIN f}

\* <<resource, path>> of every Concrete registration the expansion collected.
Claims == {<<t.resource, t.path>> : t \in {x \in Range(terminals) : x.type = "Concrete"}}

\* C1: in generate(), for every edge `r depends on d` that a DependUnique
\* or a DependShared added to the dependency graph, every invocation of
\* r's generate() comes after an invocation of d's generate().
C1_DependenciesGenerateFirst ==
    \A e \in declared : \A i \in DOMAIN generated :
        generated[i] = e[1] => \E j \in 1..(i - 1) : generated[j] = e[2]

C1_Witness ==
    /\ pc = "done" /\ result = "Ok" /\ Len(layers) >= 3
    /\ \E e \in declared : e[2] \in uniques /\ {e[1], e[2]} \subseteq Range(generated)
    /\ \E e \in declared : e[2] \notin uniques /\ {e[1], e[2]} \subseteq Range(generated)

\* C2: when generate() has returned Ok, no resource's generate() was
\* invoked more than once during that call.
C2_GenerateAtMostOnce ==
    (pc = "done" /\ result = "Ok") =>
        \A i, j \in DOMAIN generated : generated[i] = generated[j] => i = j

\* C3: when generate() has returned Ok, the generate() of every resource
\* created by require() and of every resource created for a DependUnique
\* was invoked during that call.
C3_AllGenerated ==
    (pc = "done" /\ result = "Ok") => (required \cup uniques) \subseteq Range(generated)

\* Two distinct resources claimed one path and neither reports the other equal.
Colliding(c1, c2) ==
    /\ c1[2] = c2[2]
    /\ c1[1] # c2[1]
    /\ ~Equals(resources[c1[1]], resources[c2[1]])
    /\ ~Equals(resources[c2[1]], resources[c1[1]])

\* C4: a call of generate() in which two distinct resources, neither equal
\* to the other, claimed the same output path never reaches the generation:
\* unless the expansion itself failed, it returns the path-collision error.
C4_CollisionFails ==
    (pc \in {"layers", "concrete", "done"} /\ result \notin ExpansionErrors
        /\ \E c1, c2 \in Claims : Colliding(c1, c2))
    => (pc = "done" /\ result = "ErrCollision")

C4_Witness ==
    /\ pc = "done" /\ result = "ErrCollision" /\ generated = <<>>
    /\ \E c1, c2 \in Claims : Colliding(c1, c2) /\ {c1[1], c2[1]} \subseteq required

\* C5: when add_concrete_resource is called for a path that already has an
\* entry and the two resources report each other equal, the call succeeds
\* and leaves the path table as it was.
C5_EqualClaimKeepsTable ==
    [][(/\ pc = "register" /\ ti <= Len(terminals)
        /\ terminals[ti].type = "Concrete"
        /\ terminals[ti].path \in DOMAIN concrete_resources
        /\ Equals(resources[terminals[ti].resource],
                  resources[concrete_resources[terminals[ti].path]])
        /\ Equals(resources[concrete_resources[terminals[ti].path]],
                  resources[terminals[ti].resource]))
       => (pc' = "register" /\ concrete_resources' = concrete_resources)]_vars

\* C6: in the Builder, requiring an object that has no id yet, whose output
\* path is already claimed and which the claimant and the object report
\* equal, returns Ok with the node of the claimant and leaves the output
\* table as it was: one entry for the path, that of the first claimant.
C6_EqualRequireReturnsFirst ==
    [][(LET h == b_result'.resource
            path == BObjects[h].path
        IN  /\ b_calls' = b_calls + 1
            /\ BId(object_id, h) = NoId
            /\ path \in DOMAIN builder.output
            /\ BEquals(builder.output[path].resource, h)
            /\ BEquals(h, builder.output[path].resource))
       => (LET first == builder.output[BObjects[b_result'.resource].path]
           IN  /\ b_result'.ok
               /\ b_result'.node.id = first.id
               /\ b_result'.node.resource = first.resource
               /\ builder'.output = builder.output)]_vars

C6_Witness ==
    /\ b_result.ok
    /\ b_result.resource # NoHandle
    /\ b_result.node.resource # b_result.resource
    /\ object_id[b_result.resource] # b_result.node.id
    /\ BObjects[b_result.resource].path \in DOMAIN builder.output
    /\ builder.output[BObjects[b_result.resource].path].id = b_result.node.id

\* The resources whose generate() the generation invokes.
WillGenerate == GraphNodes(dependency_graph) \cup Range(concrete_resources)

AddCall ==
    IF pc = "expand" /\ stack # <<>>
    THEN LET top == stack[Len(stack)]
         IN  IF top.regs = <<>> THEN top.after
             ELSE IF Head(top.regs).type = "DependShared"
                  THEN <<Head(top.regs).resource, Head(top.regs).shared>>
                  ELSE <<>>
    ELSE <<>>

\* A graph has a cycle when some nonempty set of its nodes is closed under
\* taking one dependency.
Cyclic(g) ==
    \E S \in SUBSET GraphNodes(g) :
        S # {} /\ \A n \in S : \E m \in S : <<n, m>> \in g

\* C8: add_dependency(r, d) returns an error when the edge r -> d would
\* close a cycle (r = d included), and leaves the dependency graph as it was.
C8_CycleRejected ==
    [][(AddCall # <<>> /\ Cyclic(dependency_graph \cup {AddCall}))
       => (pc' = "done" /\ result' = "ErrCycle"
           /\ dependency_graph' = dependency_graph)]_vars

C8_Witness ==
    pc = "done" /\ result = "ErrCycle" /\ dependency_graph # {}

\* C9: when generate() returns an error of the expansion or the
\* path-collision error, it has invoked no resource's generate().
C9_ErrorsBeforeGeneration ==
    (pc = "done" /\ result \in ExpansionErrors \cup {"ErrCollision"}) => generated = <<>>

C9_Witness ==
    /\ pc = "done" /\ result = "ErrCollision" /\ generated = <<>>
    /\ dependency_graph # {}

\* C10: the expansion of generate() always ends: it never nests deeper
\* than MAX_RECURSION, once begun it stops, and for a resource whose
\* registrations form an unbounded chain it stops with the recursion error.
C10_ExpansionTerminates ==
    /\ [](Len(stack) <= MAX_RECURSION)
    /\ []((pc = "done" /\ calls = 1 /\ 0 \in required /\ resources[0] \in UnboundedSpecials)
            => result = "ErrRecursion")
    /\ (pc = "expand") ~> (pc # "expand")

C10_Witness ==
    /\ pc = "done" /\ result = "ErrRecursion" /\ resources[0] = Special("chain")
    /\ next_dependency_id = MAX_RECURSION + 1

\* C11: once a call of generate() has returned an error of the expansion or
\* the path-collision error, no later call of generate() on that Generator
\* returns Ok or invokes a resource's generate().
C11_FailedBuildNotReused ==
    (earlier \cap (ExpansionErrors \cup {"ErrCollision"}) # {})
    => (result # "Ok" /\ generated = <<>>)
\* The handles whose object is given an id by the step.
Registered == {h \in Handles : object_id'[h] # object_id[h]}

\* C12: ids come from a counter that starts at 0 and grows by one per
\* assignment, in the Generator, the Manager and the Builder alike: the ids
\* in use are 0 .. counter - 1, an id once given to a registration stays
\* with it, and every newly assigned id is the value of the counter, also
\* when the registration is rejected or deduplicated afterwards.
C12_IdsFromCounter ==
    /\ [](/\ DOMAIN resources = 0..(next_dependency_id - 1)
          /\ DOMAIN manager.map = 0..(manager.next_id - 1)
          /\ \A h \in Handles : object_id[h] < builder.next_id
          /\ \A h1, h2 \in Handles :
                (object_id[h1] # NoId /\ object_id[h1] = object_id[h2]) => h1 = h2
          /\ \A i \in DOMAIN builder.nodes :
                builder.nodes[i].id = i /\ i < builder.next_id)
    /\ [][/\ next_dependency_id' \in {next_dependency_id, next_dependency_id + 1}
          /\ \A id \in DOMAIN resources : resources'[id] = resources[id]
          /\ manager'.next_id \in {manager.next_id, manager.next_id + 1}
          /\ \A id \in DOMAIN manager.map : manager'.map[id] = manager.map[id]
          /\ \A h \in Registered :
                object_id'[h] >= builder.next_id /\ object_id'[h] < builder'.next_id
          /\ builder'.next_id = builder.next_id + Cardinality(Registered)]_vars

C12_Witness ==
    /\ pc = "done" /\ result = "ErrCollision"
    /\ next_dependency_id >= 2 /\ uniques # {}

\* C13: every id in the dependency graph and every resource in the path
\* table has an entry in the registry, so the lookup generate() makes for
\* each node of a layer finds it.
C13_GraphAndTableRegistered ==
    /\ GraphNodes(dependency_graph) \cup Range(concrete_resources) \subseteq DOMAIN resources
    /\ result # "Panic"

\* The registration the next step of the expansion processes, or NoReg.
NoReg == [type |-> "none"]

NextReg ==
    IF pc = "expand" /\ stack # <<>> /\ stack[Len(stack)].regs # <<>>
    THEN Head(stack[Len(stack)].regs)
    ELSE NoReg

\* C14: processing DependShared(resource, shared) creates no registry
\* entry and, unless the edge is rejected, adds exactly the edge
\* resource -> shared; during generate() the registry changes only where a
\* DependUnique is processed, so with shared dependencies alone it has as
\* many entries after generate() as before.
C14_SharedAddsEdgeOnly ==
    /\ [][NextReg.type = "DependShared"
          => /\ resources' = resources
             /\ next_dependency_id' = next_dependency_id
             /\ \/ dependency_graph' =
                      dependency_graph \cup {<<NextReg.resource, NextReg.shared>>}
                \/ result' = "ErrCycle" /\ dependency_graph' = dependency_graph]_vars
    /\ [][(pc \notin {"idle", "done"} /\ uniques' = uniques)
          => resources' = resources]_vars

C14_Witness ==
    /\ pc = "done" /\ result = "Ok" /\ uniques = {}
    /\ \E r1, r2 \in DOMAIN resources :
          r1 # r2 /\ {<<r1, 0>>, <<r2, 0>>} \subseteq dependency_graph
    /\ DOMAIN resources = required \cup {0}

\* C15: processing DependUnique(resource, object) registers the object as
\* one new resource under the next id, then expands the registrations of
\* the new resource, and only when that expansion has returned adds the
\* edge resource -> new resource.
C15_UniqueRegistersExpandsThenEdge ==
    /\ [][NextReg.type = "DependUnique"
          => /\ next_dependency_id \notin DOMAIN resources
             /\ DOMAIN resources' = DOMAIN resources \cup {next_dependency_id}
             /\ resources'[next_dependency_id] = NextReg.object
             /\ \A id \in DOMAIN resources : resources'[id] = resources[id]
             /\ next_dependency_id' = next_dependency_id + 1
             /\ dependency_graph' = dependency_graph
             /\ \/ result' \in {"ErrDelayed", "ErrRecursion"}
                \/ /\ Len(stack') = Len(stack) + 1
                   /\ stack'[Len(stack')].regs =
                         Call(Register(NextReg.object, next_dependency_id)).regs
                   /\ stack'[Len(stack')].after = <<NextReg.resource, next_dependency_id>>]_vars
    /\ [](\A i \in DOMAIN stack :
            stack[i].after # <<>> => stack[i].after \notin dependency_graph)
    /\ [][(pc = "expand" /\ stack # <<>> /\ stack[Len(stack)].regs = <<>>
             /\ stack[Len(stack)].after # <<>>)
          => \/ dependency_graph' = dependency_graph \cup {stack[Len(stack)].after}
             \/ result' = "ErrCycle" /\ dependency_graph' = dependency_graph]_vars

C15_Witness ==
    /\ pc = "done" /\ result = "Ok"
    /\ required = {0} /\ uniques = {1}
    /\ dependency_graph = {<<0, 1>>}
    /\ DOMAIN concrete_resources = {"a"}

\* C16: require() adds one resource to the registry and one pending
\* delayed registration and leaves the path table and the dependency graph
\* as they were; when generate() has returned Ok no registration is
\* pending and every path claimed in that call has an entry in the path
\* table, which after the first call holds these paths and no other.
C16_RequireIsLazy ==
    /\ [][required' # required
          => /\ Cardinality(DOMAIN resources') = Cardinality(DOMAIN resources) + 1
             /\ Len(registrations') = Len(registrations) + 1
             /\ SubSeq(registrations', 1, Len(registrations)) = registrations
             /\ concrete_resources' = concrete_resources
             /\ dependency_graph' = dependency_graph]_vars
    /\ []((pc = "done" /\ result = "Ok")
          => /\ registrations = <<>>
             /\ {c[2] : c \in Claims} \subseteq DOMAIN concrete_resources
             /\ calls = 1 => DOMAIN concrete_resources = {c[2] : c \in Claims})

C16_Witness ==
    /\ pc = "done" /\ result = "Ok" /\ calls = 1
    /\ required = {0, 1} /\ uniques = {}
    /\ registrations = <<>>
    /\ DOMAIN concrete_resources = {"a", "b"}

C18_SharedObjectKeepsId ==
    /\ [][\A h \in Handles :
            (BObjects[h].kind = "mock" /\ object_id[h] # NoId)
            => object_id'[h] = object_id[h]]_vars
    /\ [][(LET h == b_result'.resource
               s == BObjects[h].shared
           IN  /\ b_calls' = b_calls + 1
               /\ object_id[h] = NoId
               /\ s # NoHandle
               /\ object_id[s] # NoId
               /\ b_result'.ok
               /\ b_result'.node.resource = h)
          => (LET h == b_result'.resource
                  s == BObjects[h].shared
              IN  /\ object_id'[s] = object_id[s]
                  /\ object_id'[h] = builder.next_id
                  /\ builder'.next_id = builder.next_id + 1
                  /\ DOMAIN builder'.nodes = DOMAIN builder.nodes \cup {object_id'[h]}
                  /\ object_id'[h] \notin DOMAIN builder.nodes)]_vars

C18_Witness ==
    /\ b_result.ok
    /\ b_result.resource \in {4, 6}
    /\ b_result.node.resource = b_result.resource
    /\ object_id[4] # NoId /\ object_id[6] # NoId
    /\ b_result.node.id = 2
    /\ builder.next_id = 3
    /\ DOMAIN builder.nodes = {0, 1, 2}

\* The last call of FsCache::set, when it returned.
LastSet == c_sets[Len(c_sets)]

\* C19: after FsCache.set(k, h, deps) has returned, FsCache.get(k) returns
\* Some((h, deps)): the same hash, the same dependency paths, the same
\* dependency hashes.
C19_CacheRoundTrip ==
    (c_sets # <<>> /\ LastSet.ok)
    => FsCache_get(fs, LastSet.key) =
         [some |-> TRUE, hash |-> LastSet.hash, deps |-> LastSet.deps]

\* C20: after set(k, h1, deps1) and then set(k, h2, deps2), get(k) returns
\* the hash h2 and no dependency that deps2 does not have, each with its
\* hash of deps2.
C20_SetReplacesRecord ==
    (/\ Len(c_sets) >= 2 /\ LastSet.ok
     /\ c_sets[Len(c_sets) - 1].key = LastSet.key)
    => LET got == FsCache_get(fs, LastSet.key)
       IN  /\ got.some
           /\ got.hash = LastSet.hash
           /\ \A d \in DOMAIN got.deps :
                d \in DOMAIN LastSet.deps /\ got.deps[d] = LastSet.deps[d]

\* C21: the build rebuilds a target exactly when its output is missing,
\* the cache has no record of it, the set of its dependency paths differs
\* from the recorded one or a dependency's hash differs from the recorded
\* one.  So of two runs in a row for one target with FsCache, the output
\* being on disk at the second, the second rebuilds exactly when the
\* dependency paths or some dependency's hash changed in between.
C21_RebuildExactlyOnChange ==
    \A i \in 2..Len(d_runs) :
        (/\ d_cache = "FsCache"
         /\ d_runs[i].key = d_runs[i - 1].key
         /\ d_runs[i].existed)
        => (d_runs[i].rebuild <=> d_runs[i].current # d_runs[i - 1].current)

\* C22: NoCache never reports a record.  After any sequence of set calls
\* get returns None for every key and hash returns one value for every
\* path, so a build that uses NoCache rebuilds every target on every run.
C22_NoCacheAlwaysRebuilds ==
    d_cache = "NoCache" =>
        /\ \A k \in Keys : ~NoCache_get(c_sets, k).some
        /\ \A p, q \in Keys \cup DepPaths : NoCache_hash(p) = NoCache_hash(q)
        /\ \A i \in DOMAIN d_runs : d_runs[i].rebuild

\* The second run with NoCache for a target that exists and whose
\* dependencies are unchanged.
C22_Witness ==
    /\ d_cache = "NoCache"
    /\ Len(d_runs) = 2
    /\ Len(c_sets) = 2
    /\ d_runs[2].key = d_runs[1].key
    /\ d_runs[2].existed
    /\ d_runs[2].current = d_runs[1].current
    /\ d_runs[2].current # << >>

\* C23: a persistence failure is reported as an error of its own and is
\* not turned into another outcome.  So get returns None, the answer for a
\* target that was never recorded, only when no record of the key is
\* stored.
C23_FailureIsNotNone ==
    [][\A key \in Keys :
         (CacheGet(key) /\ ~c_got'.result.some)
         => target_location(key) \notin DOMAIN fs.files]_vars

\* C24: for every type used as an identity (the Resource of lib.rs, the
\* Node of node.rs, the Node and the Dependency of the builder) two values
\* are equal exactly when their ids are equal, whatever equals() of the
\* wrapped objects answers; in particular every value is equal to itself.
C24_EqualExactlyWhenSameId ==
    /\ \A i, j \in DOMAIN resources :
         Resource_eq(Resource(i, resources[i]), Resource(j, resources[j])) <=> i = j
    /\ \A i, j \in DOMAIN manager.map :
         Node_eq(Node(i, manager.map[i]), Node(j, manager.map[j])) <=> i = j
    /\ \A i, j \in DOMAIN builder.nodes :
         /\ BNode_eq(builder.nodes[i], builder.nodes[j])
              <=> builder.nodes[i].id = builder.nodes[j].id
         /\ Dependency_eq(Dependency(builder.nodes[i].id, builder.nodes[i].resource),
                          Dependency(builder.nodes[j].id, builder.nodes[j].resource))
              <=> builder.nodes[i].id = builder.nodes[j].id

\* C25: Manager::generate of an id that add_reference never returned
\* returns the error 'resource not found' and Manager::get of it returns
\* None; neither call changes the counter or the map, and neither invokes
\* the generate() of any object.
C25_UnknownIdNotFound ==
    [][\A id \in 0..MaxAdd :
         id >= manager.next_id =>
           /\ MGenerate(id) =>
                /\ ~m_result'.ok
                /\ m_result'.err = NotFound
                /\ manager' = manager
                /\ m_generated' = m_generated
           /\ MGet(id) =>
                /\ ~m_result'.ok
                /\ manager' = manager
                /\ m_generated' = m_generated]_vars

\* generate of an unknown id, after resources were added and generated
C25_Witness ==
    /\ m_result.op = "generate"
    /\ m_result.id >= manager.next_id
    /\ m_result.err = NotFound
    /\ manager.next_id > 0
    /\ m_generated # <<>>

\* C26: when the generate() of a resource returns an error during
\* Generator::generate, generate returns the error at that point: no
\* generate() is invoked afterwards in that call, and what was generated
\* before stays generated.
C26_GenerateErrorAborts ==
    [][calls' = calls =>
         /\ Len(generated') >= Len(generated)
         /\ SubSeq(generated', 1, Len(generated)) = generated
         /\ \A i \in DOMAIN generated' :
              resources'[generated'[i]].genErr =>
                /\ i = Len(generated')
                /\ result' = "ErrGenerate"
                /\ pc' \in {"done", "idle"}]_vars

\* A generate() failed after another succeeded, and a resource is left
\* whose generate() was not invoked.
C26_Witness ==
    /\ pc = "done"
    /\ result = "ErrGenerate"
    /\ Len(generated) >= 2
    /\ \E id \in DOMAIN resources : id \notin Range(generated)

C28_CreatedOnlyNotBuilt ==
    \A id \in DOMAIN resources \ (required \cup uniques) :
        /\ \A i \in DOMAIN registrations : registrations[i].resource # id
        /\ \A f \in DOMAIN stack : \A i \in DOMAIN stack[f].regs :
              LET reg == stack[f].regs[i]
              IN  IF reg.type = "Delayed" THEN reg.delayed.resource # id
                  ELSE reg.resource # id
        /\ \A i \in DOMAIN terminals : terminals[i].resource # id
        /\ \A path \in DOMAIN concrete_resources : concrete_resources[path] # id
        /\ id \notin GraphNodes(dependency_graph) => id \notin Range(generated)

\* generate() returned Ok, a created resource that would claim the path
\* "a" was left out and another resource was generated.
C28_Witness ==
    /\ pc = "done" /\ result = "Ok"
    /\ generated # <<>>
    /\ \E id \in DOMAIN resources \ (required \cup uniques) :
          /\ resources[id].path = "a"
          /\ id \notin GraphNodes(dependency_graph)
          /\ id \notin Range(generated)
          /\ "a" \notin DOMAIN concrete_resources

\* C29: for every kind of resource of the builder, once register(id) was
\* called id() returns Some(id), so a second require of the same object
\* is recognised as registered and consumes no second id.
C29_RegisteredObjectReportsId ==
    /\ [](\A h \in Handles : object_id[h] # NoId => BId(object_id, h) = object_id[h])
    /\ [][\A h \in Handles :
            (BRequire(h) /\ object_id[h] # NoId /\ b_result'.ok)
            => builder'.next_id = builder.next_id]_vars

\* C30: a PrecedeUnique(object) or PrecedeShared(node) that a resource S
\* emitted orders the referenced resource strictly after S: the edge is
\* referenced -> S, and the generate() of S is invoked before the
\* generate() of the referenced resource.
GeneratedBefore(s, r) ==
    \A i \in DOMAIN generated :
        generated[i] = r => \E j \in 1..(i - 1) : generated[j] = s

C30_PrecedeOrdersAfter ==
    /\ \A f \in DOMAIN resources :
         (resources[f].kind = "fil" /\ pc # "expand") =>
            \E S \in DOMAIN resources :
               /\ resources[S].kind = "dir"
               /\ <<f, S>> \in dependency_graph
               /\ <<S, f>> \notin dependency_graph
               /\ GeneratedBefore(S, f)
    /\ \A S \in DOMAIN resources :
         (/\ resources[S].kind = "before"
          /\ pc # "expand"
          /\ \A i \in DOMAIN registrations : registrations[i].resource # S) =>
            /\ <<resources[S].shared, S>> \in dependency_graph
            /\ <<S, resources[S].shared>> \notin dependency_graph
            /\ GeneratedBefore(S, resources[S].shared)

\* generate() returned Ok after it generated a Dir before its Fil and a
\* resource before the Dir it precedes.
C30_Witness ==
    /\ pc = "done" /\ result = "Ok"
    /\ \E f, S, B \in DOMAIN resources :
          /\ resources[f].kind = "fil"
          /\ resources[S].kind = "dir"
          /\ resources[B].kind = "before" /\ resources[B].shared = S
          /\ {f, S, B} \subseteq Range(generated)

\* C31: the top-level registration list of a required resource is at
\* depth 1 and every Delayed or DependUnique leads one level deeper.  The
\* expansion fails with the recursion error exactly when a list at depth
\* MAX_RECURSION + 1 would have to be expanded: a tree of depth at most
\* MAX_RECURSION expands without that error whatever its siblings, and the
\* budget starts afresh for each required resource.
C31_RecursionBudget ==
    /\ [](\A d \in DOMAIN stack : stack[d].recurse = MAX_RECURSION - d)
    /\ [][(result # "ErrRecursion" /\ result' = "ErrRecursion")
          => /\ Len(stack) = MAX_RECURSION
             /\ NextReg.type \in {"Delayed", "DependUnique"}]_vars
    /\ [][(Len(stack) = MAX_RECURSION /\ NextReg.type \in {"Delayed", "DependUnique"})
          => result' = "ErrRecursion"]_vars
    /\ [](result = "ErrRecursion"
          => \E id \in required :
                resources[id] \in {Countdown(MAX_RECURSION + 1), Special("loop")})

\* Two trees of depth MAX_RECURSION, required into one Generator, expanded
\* without error.
C31_Witness ==
    /\ pc = "done" /\ result = "Ok" /\ calls = 1
    /\ Cardinality(required) >= 2
    /\ \A id \in required : resources[id] = Countdown(MAX_RECURSION)
    /\ Len(terminals) = 4

\* C32: a claim on a path that is already claimed is decided by the
\* equality predicate of the existing claimant applied to the incoming
\* resource: the claim is accepted exactly when existing.equals(incoming)
\* is true, also where the predicate is not symmetric.
C32_ExistingDecidesCollision ==
    [][(/\ pc = "register"
        /\ ti <= Len(terminals)
        /\ terminals[ti].type = "Concrete"
        /\ terminals[ti].path \in DOMAIN concrete_resources)
       => LET incoming == terminals[ti].resource
              existing == concrete_resources[terminals[ti].path]
              accepted == /\ result' # "ErrCollision"
                          /\ concrete_resources'[terminals[ti].path] = incoming
          IN  accepted <=> Equals(resources[existing], resources[incoming])]_vars

\* C33: in a build register() is invoked exactly once for every resource
\* id that takes part in it, in require() or where the object of a
\* DependUnique is registered, and every delayed registration it returned
\* is evaluated exactly once.  register() is invoked where `required` or
\* `uniques` gains an id; a resource takes part when generate() invokes
\* its generate() or when it is a node of the dependency graph.
C33_RegisterOncePerId ==
    /\ [][required' # required
          => /\ next_dependency_id \notin required \cup uniques
             /\ required' = required \cup {next_dependency_id}
             /\ registrations' =
                   Append(registrations,
                          Register(resources'[next_dependency_id], next_dependency_id))]_vars
    /\ [][uniques' # uniques
          => /\ next_dependency_id \notin required \cup uniques
             /\ uniques' = uniques \cup {next_dependency_id}
             /\ registrations' = registrations]_vars
    /\ [](\A i, j \in DOMAIN registrations :
             registrations[i].resource = registrations[j].resource => i = j)
    /\ []((pc = "done" /\ result = "Ok")
          => /\ registrations = <<>>
             /\ Range(generated) \cup GraphNodes(dependency_graph)
                   \subseteq required \cup uniques)

\* C34: when a DependShared edge to a shared resource is processed, the
\* registrations of that shared resource have already been expanded: its
\* register() was invoked and the delayed registration evaluated, its
\* dependencies are in the graph and its path is in the path table.
C34_SharedAlreadyExpanded ==
    NextReg.type = "DependShared" =>
        LET shared == NextReg.shared
        IN  /\ shared \in DOMAIN resources
            /\ shared \in required \cup uniques
            /\ \A i \in DOMAIN registrations : registrations[i].resource # shared
            /\ resources[shared].unique # NoObj
                  => \E e \in dependency_graph : e[1] = shared
            /\ resources[shared].path # NoPath
                  => resources[shared].path \in DOMAIN concrete_resources

\* C35: in the Builder, requiring a resource whose output path is claimed
\* by another resource that the equality predicate reports unequal returns
\* Err; the failed require leaves nodes, roots, output and the dependency
\* graph as they were, and the id counter has advanced by the one id the
\* resource was given.
BCollides(h) ==
    LET path == BObjects[h].path
    IN  /\ path # NoPath
        /\ path \in DOMAIN builder.output
        /\ builder.output[path].resource # h
        /\ ~BEquals(builder.output[path].resource, h)

C35_FailedRequireLeavesBuilder ==
    [][\A h \in Handles :
         (BRequire(h) /\ BCollides(h))
         => /\ ~b_result'.ok
            /\ builder'.nodes = builder.nodes
            /\ builder'.roots = builder.roots
            /\ builder'.output = builder.output
            /\ builder'.dependency_graph = builder.dependency_graph
            /\ BId(object_id, h) = NoId => builder'.next_id = builder.next_id + 1]_vars

\* The second require of test_require_unique_resources_identical_paths_collide
C35_Witness ==
    /\ ~b_result.ok
    /\ b_calls = 2
    /\ BCollides(b_result.resource)
    /\ builder.next_id = 2
    /\ DOMAIN builder.nodes = {0}
    /\ Len(builder.roots) = 1

\* C36: in the Builder, after any sequence of successful require and
\* require_ref calls every object whose id() is Some(i) has a node of id i
\* in nodes, so requiring such an object again succeeds.  Stated as what a
\* successful call preserves; it holds before the first call.
BIdsHaveNodes ==
    \A h \in Handles : BId(object_id, h) # NoId => BId(object_id, h) \in DOMAIN builder.nodes

C36_RegisteredObjectsHaveNodes ==
    [][\A h \in Handles :
         (BRequire(h) /\ BIdsHaveNodes /\ b_result'.ok)
         => /\ BIdsHaveNodes'
            /\ b_result'.node.id \in DOMAIN builder'.nodes]_vars

\* C37: the cache records of different keys are independent.  For two
\* distinct keys k1 and k2, also where one path is a prefix of the other,
\* FsCache::set(k2, ...) leaves what FsCache::get(k1) returns unchanged.
C37_KeysIndependent ==
    [][c_sets' # c_sets
       => LET k2 == c_sets'[Len(c_sets')].key
          IN  \A k1 \in Keys \ {k2} : FsCache_get(fs', k1) = FsCache_get(fs, k1)]_vars

\* C38: in a build in which every resource declares only DependUnique
\* dependencies on objects of its own, and no DependShared, every edge of
\* the dependency graph goes from an id to a strictly larger id, so
\* add_dependency never reports a cycle and the recursion limit is the
\* only error of the expansion.  The delayed registrations of the build
\* themselves return Ok.
UniqueOnly ==
    \A id \in DOMAIN resources :
        /\ resources[id].kind \notin {"failing", "nestedFailing"}
        /\ resources[id].shared = NoId
        /\ resources[id].unique # NoObj => resources[id].unique.shared = NoId

====
